---- MODULE Spec2Model ----
(***************************************************************************)
(* Model of the AIR constraint compiler of winterfell: assertions are      *)
(* validated and sorted (prepare_assertions), compiled into boundary       *)
(* constraints (BoundaryConstraint::new), grouped by (stride, first_step)  *)
(* in a HashMap and returned sorted by degree adjustment                   *)
(* (Air::get_boundary_constraints).                                        *)
(***************************************************************************)
EXTENDS Integers, Sequences, FiniteSets, TLC

VARIABLES
    context,     \* the ComputationContext of the Air instance
    seed,        \* the seed of the coin handed to get_boundary_constraints
    assertions,  \* the list Air::get_assertions returns
    out,         \* the outcome of the latest get_boundary_constraints call
    prev,        \* the outcome of the call before it
    bc           \* a BoundaryConstraint under construction / evaluation

vars == <<context, seed, assertions, out, prev, bc>>

-----------------------------------------------------------------------------
(* Bounds of the model.                                                    *)

\* longest list get_assertions returns
MaxAssertions == 3

-----------------------------------------------------------------------------
(* Machine integers.  A usize that can exceed the integers of the checker  *)
(* is kept at its width of 64 bits as four limbs of 16 bits, least         *)
(* significant first; a u32 as two such limbs.                             *)

LIMB == 2 ^ 16

\* a usize from an integer below 2^31
usize(n) == <<n % LIMB, (n \div LIMB) % LIMB, 0, 0>>

\* the limbs of a + b + carry from limb i on
RECURSIVE add_from(_, _, _, _)
add_from(a, b, i, carry) ==
    IF i > Len(a) THEN << >>
    ELSE LET t == a[i] + b[i] + carry
         IN  <<t % LIMB>> \o add_from(a, b, i + 1, t \div LIMB)

\* usize + usize, wrapping at 2^64
usize_add(a, b) == add_from(a, b, 1, 0)

\* the limbs of a - b - borrow from limb i on
RECURSIVE sub_from(_, _, _, _)
sub_from(a, b, i, borrow) ==
    IF i > Len(a) THEN << >>
    ELSE LET t == a[i] - b[i] - borrow
         IN  <<(t + LIMB) % LIMB>> \o sub_from(a, b, i + 1, IF t < 0 THEN 1 ELSE 0)

\* usize - usize, wrapping at 2^64 (a build with overflow checks panics instead)
usize_sub(a, b) == sub_from(a, b, 1, 0)

\* the limbs of a * m + carry from limb i on, m below 2^15
RECURSIVE mul_from(_, _, _, _)
mul_from(a, m, i, carry) ==
    IF i > Len(a) THEN << >>
    ELSE LET t == a[i] * m + carry
         IN  <<t % LIMB>> \o mul_from(a, m, i + 1, t \div LIMB)

\* usize * m, wrapping at 2^64
usize_mul(a, m) == mul_from(a, m, 1, 0)

\* a < b, for two usize or two u32
RECURSIVE less_from(_, _, _)
less_from(a, b, i) ==
    IF i = 0 THEN FALSE
    ELSE IF a[i] # b[i] THEN a[i] < b[i]
    ELSE less_from(a, b, i - 1)

less(a, b) == less_from(a, b, Len(a))

\* usize as u32: the low 32 bits
as_u32(a) == <<a[1], a[2]>>

\* u32 as usize
as_usize(a) == <<a[1], a[2], 0, 0>>

-----------------------------------------------------------------------------
(* Field layer: math::field.  The base field is a prime field with a       *)
(* two-adic multiplicative subgroup; the model uses the prime 17, whose    *)
(* multiplicative group has order 2^4 and is generated by 3.               *)

M == 17
GENERATOR == 3
TWO_ADICITY == 4

Elements == 0 .. (M - 1)
ZERO == 0
ONE == 1

add(a, b) == (a + b) % M
sub(a, b) == (a + M - b) % M
mul(a, b) == (a * b) % M

RECURSIVE exp(_, _)
exp(b, p) == IF p = 0 THEN ONE ELSE mul(b, exp(b, p - 1))

inv(x) == IF x = ZERO THEN ZERO ELSE exp(x, M - 2)

RECURSIVE log2(_)
log2(n) == IF n <= 1 THEN 0 ELSE 1 + log2(n \div 2)

RECURSIVE pow2(_)
pow2(k) == IF k = 0 THEN 1 ELSE 2 * pow2(k - 1)

is_power_of_two(n) == n >= 1 /\ pow2(log2(n)) = n

\* StarkField::get_root_of_unity(n): a primitive 2^n-th root of unity
get_root_of_unity(n) == exp(GENERATOR, pow2(TWO_ADICITY - n))

\* polynom::eval: Horner evaluation, coefficients in ascending order
RECURSIVE eval_from(_, _, _)
eval_from(p, x, i) ==
    IF i > Len(p) THEN ZERO ELSE add(p[i], mul(x, eval_from(p, x, i + 1)))

eval(p, x) == eval_from(p, x, 1)

-----------------------------------------------------------------------------
(* fft: inverse twiddles and interpolation over the roots of unity.        *)

\* alternative to get_inv_twiddles: the twiddles of the forward transform
get_twiddles(domain_size) ==
    LET w == get_root_of_unity(log2(domain_size))
    IN  [i \in 1 .. (domain_size \div 2) |-> exp(w, i - 1)]

\* fft::get_inv_twiddles(domain_size): powers w^-i, 0 <= i < domain_size / 2
get_inv_twiddles(domain_size) ==
    LET w_inv == inv(get_root_of_unity(log2(domain_size)))
    IN  [i \in 1 .. (domain_size \div 2) |-> exp(w_inv, i - 1)]

\* radix-2 butterflies over the twiddles; the scaling by 1/n is applied after
RECURSIVE fft_in_place(_, _)
fft_in_place(v, tw) ==
    IF Len(v) = 1 THEN v
    ELSE LET h == Len(v) \div 2
             ev == fft_in_place([i \in 1 .. h |-> v[2 * i - 1]],
                                [i \in 1 .. (h \div 2) |-> tw[2 * i - 1]])
             od == fft_in_place([i \in 1 .. h |-> v[2 * i]],
                                [i \in 1 .. (h \div 2) |-> tw[2 * i - 1]])
         IN  [i \in 1 .. (2 * h) |->
                 IF i <= h THEN add(ev[i], mul(tw[i], od[i]))
                 ELSE sub(ev[i - h], mul(tw[i - h], od[i - h]))]

\* fft::interpolate_poly(values, inv_twiddles)
interpolate_poly(values, inv_twiddles) ==
    LET r == fft_in_place(values, inv_twiddles)
        n_inv == inv(Len(values) % M)
    IN  [i \in 1 .. Len(values) |-> mul(r[i], n_inv)]

-----------------------------------------------------------------------------
(* Assertion (air/assertions.rs).                                          *)

single(register, step, value) ==
    [register |-> register, first_step |-> step, stride |-> 0, values |-> <<value>>]

periodic(register, first_step, stride, value) ==
    [register |-> register, first_step |-> first_step, stride |-> stride,
     values |-> <<value>>]

sequence(register, first_step, stride, values) ==
    [register |-> register, first_step |-> first_step, stride |-> stride,
     values |-> values]

\* Assertion::validate_trace_width: "ok" or the error
validate_trace_width(a, trace_width) ==
    IF a.register >= trace_width THEN "RegisterOutOfRange" ELSE "ok"

\* Assertion::validate_trace_length: "ok" or the error
validate_trace_length(a, trace_length) ==
    IF a.first_step >= trace_length THEN "StepOutOfRange"
    ELSE IF a.stride # 0 /\ trace_length % a.stride # 0 THEN "StepOutOfRange"
    ELSE IF Len(a.values) > 1 /\ Len(a.values) * a.stride # trace_length
         THEN "StepOutOfRange"
    ELSE "ok"

\* Assertion::overlaps_with
overlaps_with(a, b) ==
    IF a.register # b.register THEN FALSE
    ELSE IF a.stride = b.stride THEN a.first_step = b.first_step
    ELSE LET s == IF a.stride = 0 THEN b.stride
                  ELSE IF b.stride = 0 THEN a.stride
                  ELSE IF a.stride < b.stride THEN a.stride ELSE b.stride
         IN  a.first_step % s = b.first_step % s

\* Ord for Assertion: by stride, then first_step, then register
cmp(a, b) ==
    IF a.stride # b.stride
    THEN (IF a.stride < b.stride THEN "Less" ELSE "Greater")
    ELSE IF a.first_step # b.first_step
    THEN (IF a.first_step < b.first_step THEN "Less" ELSE "Greater")
    ELSE IF a.register # b.register
    THEN (IF a.register < b.register THEN "Less" ELSE "Greater")
    ELSE "Equal"

-----------------------------------------------------------------------------
(* ComputationContext (common/src/context.rs).                             *)

trace_length(ctx) == ctx.trace_length
trace_width(ctx) == ctx.trace_width
trace_poly_degree(ctx) == usize(trace_length(ctx) - 1)
composition_degree(ctx) == usize_mul(usize(ctx.trace_length - 1), ctx.ce_blowup_factor)
get_trace_domain_generator(ctx) == get_root_of_unity(log2(ctx.trace_length))

-----------------------------------------------------------------------------
(* The coin (crypto::RandomElementGenerator): a pure function of the seed  *)
(* and of the number of pairs drawn so far.                                *)

coin_element(s, i) == (s + 3 * i) % M

new_coin(s) == [seed |-> s, draws |-> 0]

\* RandomElementGenerator::draw_pair: the next pair, and the advanced coin
draw_pair(coin) ==
    [pair |-> <<coin_element(coin.seed, 2 * coin.draws + 1),
                coin_element(coin.seed, 2 * coin.draws + 2)>>,
     coin |-> [coin EXCEPT !.draws = @ + 1]]

-----------------------------------------------------------------------------
(* ConstraintDivisor (air/divisor.rs).                                     *)

\* Assertion::get_num_steps: the number of asserted steps
get_num_steps(a, n) == IF a.stride = 0 THEN 1 ELSE n \div a.stride

\* ConstraintDivisor::from_assertion: x^k - g^(k * first_step)
from_assertion(a, ctx) ==
    LET num_steps == get_num_steps(a, trace_length(ctx))
        g == get_trace_domain_generator(ctx)
        offset == IF a.first_step = 0 THEN ONE
                  ELSE exp(g, (num_steps * a.first_step) % trace_length(ctx))
    IN  [numerator |-> << [exponent |-> num_steps, offset |-> offset] >>,
         exclude |-> << >>]

RECURSIVE sum_exponents(_, _)
sum_exponents(terms, i) ==
    IF i > Len(terms) THEN 0 ELSE terms[i].exponent + sum_exponents(terms, i + 1)

\* ConstraintDivisor::degree
degree(divisor) == sum_exponents(divisor.numerator, 1) - Len(divisor.exclude)

RECURSIVE eval_numerator(_, _, _)
eval_numerator(terms, x, i) ==
    IF i > Len(terms) THEN ONE
    ELSE mul(sub(exp(x, terms[i].exponent), terms[i].offset),
             eval_numerator(terms, x, i + 1))

RECURSIVE eval_exclude(_, _, _)
eval_exclude(points, x, i) ==
    IF i > Len(points) THEN ONE
    ELSE mul(sub(x, points[i]), eval_exclude(points, x, i + 1))

\* ConstraintDivisor::evaluate_at
divisor_evaluate_at(divisor, x) ==
    mul(eval_numerator(divisor.numerator, x, 1),
        inv(eval_exclude(divisor.exclude, x, 1)))

-----------------------------------------------------------------------------
(* BoundaryConstraint (air/boundary/mod.rs).                               *)

\* alternative to or_insert_with: HashMap::insert, which replaces the entry
insert_always(map, key, value) ==
    [k \in (DOMAIN map) \cup {key} |-> IF k = key THEN value ELSE map[k]]

\* HashMap::entry(key).or_insert_with(make): the map after the call
or_insert_with(map, key, value) ==
    IF key \in DOMAIN map THEN map ELSE (key :> value) @@ map

\* alternative to BoundaryConstraint_new: the offset is set for every first_step # 0
BoundaryConstraint_new_offset(assertion, inv_g, twiddle_map, coeff_prng) ==
    LET values == assertion.values
        multi == Len(values) > 1
        twiddles == IF multi
                    THEN or_insert_with(twiddle_map, Len(values),
                                        get_inv_twiddles(Len(values)))
                    ELSE twiddle_map
        poly == IF multi THEN interpolate_poly(values, twiddles[Len(values)])
                ELSE values
        poly_offset == IF assertion.first_step # 0
                       THEN <<assertion.first_step, exp(inv_g, assertion.first_step)>>
                       ELSE <<0, ONE>>
        drawn == draw_pair(coeff_prng)
    IN  [constraint |-> [register |-> assertion.register,
                         poly |-> poly,
                         poly_offset |-> poly_offset,
                         cc |-> drawn.pair],
         twiddle_map |-> twiddles,
         coeff_prng |-> drawn.coin]

\* alternative to BoundaryConstraint_new: an entry is made for every length,
\* also for a single value
BoundaryConstraint_new_eager(assertion, inv_g, twiddle_map, coeff_prng) ==
    LET values == assertion.values
        multi == Len(values) > 1
        twiddles == or_insert_with(twiddle_map, Len(values),
                                   get_inv_twiddles(Len(values)))
        poly == IF multi THEN interpolate_poly(values, twiddles[Len(values)])
                ELSE values
        poly_offset == IF multi /\ assertion.first_step # 0
                       THEN <<assertion.first_step, exp(inv_g, assertion.first_step)>>
                       ELSE <<0, ONE>>
        drawn == draw_pair(coeff_prng)
    IN  [constraint |-> [register |-> assertion.register,
                         poly |-> poly,
                         poly_offset |-> poly_offset,
                         cc |-> drawn.pair],
         twiddle_map |-> twiddles,
         coeff_prng |-> drawn.coin]

\* alternative to BoundaryConstraint_new: the twiddles of a larger domain held
\* by the map are used when there are any
BoundaryConstraint_new_any_larger(assertion, inv_g, twiddle_map, coeff_prng) ==
    LET values == assertion.values
        multi == Len(values) > 1
        larger == {k \in DOMAIN twiddle_map : k > Len(values)}
        twiddles == IF multi /\ larger = {}
                    THEN or_insert_with(twiddle_map, Len(values),
                                        get_inv_twiddles(Len(values)))
                    ELSE twiddle_map
        used == IF larger = {} THEN Len(values)
                ELSE CHOOSE k \in larger : \A l \in larger : l <= k
        poly == IF multi THEN interpolate_poly(values, twiddles[used])
                ELSE values
        poly_offset == IF multi /\ assertion.first_step # 0
                       THEN <<assertion.first_step, exp(inv_g, assertion.first_step)>>
                       ELSE <<0, ONE>>
        drawn == draw_pair(coeff_prng)
    IN  [constraint |-> [register |-> assertion.register,
                         poly |-> poly,
                         poly_offset |-> poly_offset,
                         cc |-> drawn.pair],
         twiddle_map |-> twiddles,
         coeff_prng |-> drawn.coin]

\* alternative to BoundaryConstraint_new: the offset is a power of the
\* generator, not of its inverse
BoundaryConstraint_new_forward(assertion, inv_g, twiddle_map, coeff_prng) ==
    LET values == assertion.values
        multi == Len(values) > 1
        twiddles == IF multi
                    THEN or_insert_with(twiddle_map, Len(values),
                                        get_inv_twiddles(Len(values)))
                    ELSE twiddle_map
        poly == IF multi THEN interpolate_poly(values, twiddles[Len(values)])
                ELSE values
        poly_offset == IF multi /\ assertion.first_step # 0
                       THEN <<assertion.first_step,
                              exp(inv(inv_g), assertion.first_step)>>
                       ELSE <<0, ONE>>
        drawn == draw_pair(coeff_prng)
    IN  [constraint |-> [register |-> assertion.register,
                         poly |-> poly,
                         poly_offset |-> poly_offset,
                         cc |-> drawn.pair],
         twiddle_map |-> twiddles,
         coeff_prng |-> drawn.coin]

\* BoundaryConstraint::new: the constraint, the twiddle map and the coin after
BoundaryConstraint_new(assertion, inv_g, twiddle_map, coeff_prng) ==
    LET values == assertion.values
        multi == Len(values) > 1
        twiddles == IF multi
                    THEN or_insert_with(twiddle_map, Len(values),
                                        get_inv_twiddles(Len(values)))
                    ELSE twiddle_map
        poly == IF multi THEN interpolate_poly(values, twiddles[Len(values)])
                ELSE values
        poly_offset == IF multi /\ assertion.first_step # 0
                       THEN <<assertion.first_step, exp(inv_g, assertion.first_step)>>
                       ELSE <<0, ONE>>
        drawn == draw_pair(coeff_prng)
    IN  [constraint |-> [register |-> assertion.register,
                         poly |-> poly,
                         poly_offset |-> poly_offset,
                         cc |-> drawn.pair],
         twiddle_map |-> twiddles,
         coeff_prng |-> drawn.coin]

\* alternative to evaluate_at: the subtraction the other way round
evaluate_at_swapped(constraint, x, trace_value) ==
    LET assertion_value ==
            IF Len(constraint.poly) = 1 THEN constraint.poly[1]
            ELSE eval(constraint.poly, mul(x, constraint.poly_offset[2]))
    IN  sub(assertion_value, trace_value)

\* alternative to evaluate_at: the polynomial is evaluated at x itself
evaluate_at_unshifted(constraint, x, trace_value) ==
    LET assertion_value ==
            IF Len(constraint.poly) = 1 THEN constraint.poly[1]
            ELSE eval(constraint.poly, x)
    IN  sub(trace_value, assertion_value)

\* BoundaryConstraint::evaluate_at
evaluate_at(constraint, x, trace_value) ==
    LET assertion_value ==
            IF Len(constraint.poly) = 1 THEN constraint.poly[1]
            ELSE eval(constraint.poly, mul(x, constraint.poly_offset[2]))
    IN  sub(trace_value, assertion_value)

-----------------------------------------------------------------------------
(* BoundaryConstraintGroup (air/boundary/mod.rs).                          *)

\* BoundaryConstraintGroup::new
BoundaryConstraintGroup_new(divisor, poly_degree, comp_degree) ==
    LET target_degree == usize_add(comp_degree, usize(degree(divisor)))
        degree_adjustment == as_u32(usize_sub(target_degree, poly_degree))
    IN  [constraints |-> << >>,
         divisor |-> divisor,
         degree_adjustment |-> degree_adjustment]

\* alternative to BoundaryConstraintGroup_add: a second pair is drawn
BoundaryConstraintGroup_add_two_pairs(group, assertion, inv_g, twiddle_map, coeff_prng) ==
    LET made == BoundaryConstraint_new(assertion, inv_g, twiddle_map, coeff_prng)
    IN  [group |-> [group EXCEPT !.constraints = Append(@, made.constraint)],
         twiddle_map |-> made.twiddle_map,
         coeff_prng |-> draw_pair(made.coeff_prng).coin]

\* BoundaryConstraintGroup::add: the group, the twiddle map and the coin after
BoundaryConstraintGroup_add(group, assertion, inv_g, twiddle_map, coeff_prng) ==
    LET made == BoundaryConstraint_new(assertion, inv_g, twiddle_map, coeff_prng)
    IN  [group |-> [group EXCEPT !.constraints = Append(@, made.constraint)],
         twiddle_map |-> made.twiddle_map,
         coeff_prng |-> made.coeff_prng]

\* the loop of max_poly_degree from its i-th constraint on
RECURSIVE poly_size_from(_, _, _)
poly_size_from(constraints, i, poly_size) ==
    IF i > Len(constraints) THEN poly_size
    ELSE poly_size_from(constraints, i + 1,
                        IF Len(constraints[i].poly) > poly_size
                        THEN Len(constraints[i].poly) ELSE poly_size)

\* BoundaryConstraintGroup::max_poly_degree: poly_size - 1 in usize; when
\* poly_size is 0 the subtraction panics in a build with overflow checks and
\* wraps in one without
max_poly_degree(group, overflow_checks) ==
    LET poly_size == poly_size_from(group.constraints, 1, 0)
    IN  IF poly_size = 0 /\ overflow_checks
        THEN [status |-> "panic", value |-> usize(0)]
        ELSE [status |-> "ok", value |-> usize_sub(usize(poly_size), usize(1))]

\* alternative to group_evaluate_from: the second coefficient is left out
RECURSIVE group_evaluate_from_first(_, _, _, _, _, _)
group_evaluate_from_first(constraints, i, result, state, x, xp) ==
    IF i > Len(constraints) THEN result
    ELSE LET constraint == constraints[i]
             evaluation == evaluate_at(constraint, x, state[constraint.register])
         IN  group_evaluate_from_first(constraints, i + 1,
                 add(result, mul(evaluation, constraint.cc[1])),
                 state, x, xp)

\* the loop of BoundaryConstraintGroup::evaluate_at from its i-th constraint on
RECURSIVE group_evaluate_from(_, _, _, _, _, _)
group_evaluate_from(constraints, i, result, state, x, xp) ==
    IF i > Len(constraints) THEN result
    ELSE LET constraint == constraints[i]
             evaluation == evaluate_at(constraint, x, state[constraint.register])
         IN  group_evaluate_from(constraints, i + 1,
                 add(result, mul(evaluation,
                                 add(constraint.cc[1], mul(constraint.cc[2], xp)))),
                 state, x, xp)

\* BoundaryConstraintGroup::evaluate_at; state is indexed by register, from 0
BoundaryConstraintGroup_evaluate_at(group, state, x, xp) ==
    group_evaluate_from(group.constraints, 1, ZERO, state, x, xp)

-----------------------------------------------------------------------------
(* Air::get_boundary_constraints and prepare_assertions (air/mod.rs).      *)

\* alternative to BTreeSet_insert: a Vec, pushed to
Vec_push(set, a) == Append(set, a)

\* BTreeSet::insert: the set, kept as the ascending sequence of its elements;
\* an element that compares Equal to one already present is not inserted
BTreeSet_insert(set, a) ==
    IF \E j \in 1 .. Len(set) : cmp(set[j], a) = "Equal" THEN set
    ELSE LET below == Cardinality({j \in 1 .. Len(set) : cmp(set[j], a) = "Less"})
         IN  [j \in 1 .. (Len(set) + 1) |->
                 IF j <= below THEN set[j]
                 ELSE IF j = below + 1 THEN a
                 ELSE set[j - 1]]

\* alternative to overlaps_any: only the greatest element of the set is compared
overlaps_last_only(result, assertion) ==
    /\ Len(result) > 0
    /\ result[Len(result)].register = assertion.register
    /\ overlaps_with(result[Len(result)], assertion)

\* alternative to overlaps_any: assertions of the stride of the new one are
\* not compared with it
overlaps_any_other_stride(result, assertion) ==
    \E j \in 1 .. Len(result) :
        /\ result[j].register = assertion.register
        /\ result[j].stride # assertion.stride
        /\ overlaps_with(result[j], assertion)

\* the overlap check of prepare_assertions: some assertion already in the set,
\* on the same register, overlaps the new one
overlaps_any(result, assertion) ==
    \E j \in 1 .. Len(result) :
        /\ result[j].register = assertion.register
        /\ overlaps_with(result[j], assertion)

\* alternative to prepare_from: the trace length is not validated
RECURSIVE prepare_from_width_only(_, _, _, _)
prepare_from_width_only(list, i, result, ctx) ==
    IF i > Len(list) THEN [status |-> "ok", error |-> "none", result |-> result]
    ELSE LET assertion == list[i]
             width == validate_trace_width(assertion, trace_width(ctx))
         IN  IF width # "ok"
             THEN [status |-> "panic", error |-> width, result |-> << >>]
             ELSE IF overlaps_any(result, assertion)
             THEN [status |-> "panic", error |-> "AssertionOverlap", result |-> << >>]
             ELSE prepare_from_width_only(list, i + 1,
                                          BTreeSet_insert(result, assertion), ctx)

\* the loop of prepare_assertions from its i-th iteration on
RECURSIVE prepare_from(_, _, _, _)
prepare_from(list, i, result, ctx) ==
    IF i > Len(list) THEN [status |-> "ok", error |-> "none", result |-> result]
    ELSE LET assertion == list[i]
             width == validate_trace_width(assertion, trace_width(ctx))
             length == validate_trace_length(assertion, trace_length(ctx))
         IN  IF width # "ok"
             THEN [status |-> "panic", error |-> width, result |-> << >>]
             ELSE IF length # "ok"
             THEN [status |-> "panic", error |-> length, result |-> << >>]
             ELSE IF overlaps_any(result, assertion)
             THEN [status |-> "panic", error |-> "AssertionOverlap", result |-> << >>]
             ELSE prepare_from(list, i + 1, BTreeSet_insert(result, assertion), ctx)

\* prepare_assertions
prepare_assertions(list, ctx) == prepare_from(list, 1, << >>, ctx)

\* alternative to group_key: the stride alone
group_key_stride(assertion) == <<assertion.stride, 0>>

\* the key of the group an assertion goes to
group_key(assertion) == <<assertion.stride, assertion.first_step>>

\* the loop over the sorted assertions, from its i-th iteration on:
\* st holds the locals groups, twiddle_map and coeff_prng
RECURSIVE group_from(_, _, _, _)
group_from(sorted, i, st, ctx) ==
    IF i > Len(sorted) THEN st
    ELSE LET assertion == sorted[i]
             key == group_key(assertion)
             inv_g == inv(get_trace_domain_generator(ctx))
             groups == or_insert_with(st.groups, key,
                           BoundaryConstraintGroup_new(from_assertion(assertion, ctx),
                                                       trace_poly_degree(ctx),
                                                       composition_degree(ctx)))
             added == BoundaryConstraintGroup_add(groups[key], assertion, inv_g,
                                                  st.twiddle_map, st.coeff_prng)
         IN  group_from(sorted, i + 1,
                        [groups |-> [groups EXCEPT ![key] = added.group],
                         twiddle_map |-> added.twiddle_map,
                         coeff_prng |-> added.coeff_prng],
                        ctx)

\* the orders in which a HashMap with the keys S may hand out its entries
IterationOrders(S) ==
    {o \in [1 .. Cardinality(S) -> S] : \A i, j \in DOMAIN o : i # j => o[i] # o[j]}

\* groups.into_iter().map(|e| e.1).collect(): the values in iteration order
into_values(map, order) == [i \in 1 .. Len(order) |-> map[order[i]]]

\* slice::sort_by_key(|c| c.degree_adjustment()): a stable sort
RECURSIVE sort_by_key(_)
sort_by_key(groups) ==
    IF Len(groups) <= 1 THEN groups
    ELSE LET last == groups[Len(groups)]
             front == sort_by_key(SubSeq(groups, 1, Len(groups) - 1))
             keep == Cardinality({j \in 1 .. Len(front) :
                         ~less(last.degree_adjustment, front[j].degree_adjustment)})
         IN  [j \in 1 .. Len(groups) |->
                 IF j <= keep THEN front[j]
                 ELSE IF j = keep + 1 THEN last
                 ELSE front[j - 1]]

\* alternative to boundary_groups: the loop runs over the list as get_assertions gave it
boundary_groups_unsorted(list, ctx, coeff_prng) ==
    LET prepared == prepare_assertions(list, ctx)
        empty == [groups |-> << >>, twiddle_map |-> << >>, coeff_prng |-> coeff_prng]
    IN  IF prepared.status # "ok"
        THEN [status |-> "panic", error |-> prepared.error, sorted |-> << >>,
              locals |-> empty]
        ELSE [status |-> "ok", error |-> "none", sorted |-> prepared.result,
              locals |-> group_from(list, 1, empty, ctx)]

\* alternative to boundary_groups: the first assertion is compiled as soon as
\* it has passed its own checks, before the others are looked at
boundary_groups_first_early(list, ctx, coeff_prng) ==
    LET prepared == prepare_assertions(list, ctx)
        empty == [groups |-> << >>, twiddle_map |-> << >>, coeff_prng |-> coeff_prng]
        first == IF list = << >> THEN << >> ELSE <<list[1]>>
    IN  IF prepared.status # "ok"
        THEN [status |-> "panic", error |-> prepared.error, sorted |-> << >>,
              locals |-> IF prepare_assertions(first, ctx).status = "ok"
                         THEN group_from(first, 1, empty, ctx) ELSE empty]
        ELSE [status |-> "ok", error |-> "none", sorted |-> prepared.result,
              locals |-> group_from(prepared.result, 1, empty, ctx)]

\* get_boundary_constraints up to the end of its loop: the locals
boundary_groups(list, ctx, coeff_prng) ==
    LET prepared == prepare_assertions(list, ctx)
        empty == [groups |-> << >>, twiddle_map |-> << >>, coeff_prng |-> coeff_prng]
    IN  IF prepared.status # "ok"
        THEN [status |-> "panic", error |-> prepared.error, sorted |-> << >>,
              locals |-> empty]
        ELSE [status |-> "ok", error |-> "none", sorted |-> prepared.result,
              locals |-> group_from(prepared.result, 1, empty, ctx)]

\* get_boundary_constraints from the end of its loop on: what the call returns
\* (groups), with the sorted assertions, the twiddle map and the coin it ended with
boundary_result(built, order) ==
    [status |-> built.status,
     error |-> built.error,
     sorted |-> built.sorted,
     groups |-> sort_by_key(into_values(built.locals.groups, order)),
     twiddle_map |-> built.locals.twiddle_map,
     draws |-> built.locals.coeff_prng.draws]

-----------------------------------------------------------------------------
(* The inputs of the model.                                                *)

Contexts ==
    {[trace_width |-> 2, trace_length |-> 8, ce_blowup_factor |-> 2]}

Seeds == {0, 5}

AssertionUniverse ==
    { single(0, 0, 7), single(1, 0, 2), single(0, 2, 9),
      periodic(0, 2, 4, 5), periodic(1, 1, 2, 4),
      sequence(1, 1, 4, <<3, 12>>), sequence(0, 1, 2, <<1, 2, 3, 5>>),
      single(2, 0, 1), single(1, 8, 1), periodic(0, 0, 16, 3), single(0, 0, 9) }

Lists(S, n) == UNION {[1 .. k -> S] : k \in 0 .. n}

NoCall == [status |-> "none"]

Init ==
    /\ context \in Contexts
    /\ seed \in Seeds
    /\ assertions \in Lists(AssertionUniverse, MaxAssertions)
    /\ out = NoCall
    /\ prev = NoCall
    /\ bc = NoCall

\* a call of get_boundary_constraints with a freshly seeded coin
GetBoundaryConstraints ==
    /\ LET built == boundary_groups(assertions, context, new_coin(seed))
       IN  \E order \in IterationOrders(DOMAIN built.locals.groups) :
               out' = boundary_result(built, order)
    /\ prev' = out
    /\ UNCHANGED <<context, seed, assertions, bc>>

\* the Air implementation returns its assertions in another order
Reorder ==
    /\ \E i \in 1 .. (Len(assertions) - 1) :
           assertions' = [assertions EXCEPT ![i] = assertions[i + 1],
                                            ![i + 1] = assertions[i]]
    /\ UNCHANGED <<context, seed, out, prev, bc>>

Next == GetBoundaryConstraints \/ Reorder

Spec == Init /\ [][Next]_vars

-----------------------------------------------------------------------------
(* BoundaryConstraintGroup::new over trace lengths up to 2^30: one group   *)
(* is built from the divisor of one assertion.                             *)

DegreeContexts ==
    {[trace_width |-> 1, trace_length |-> 2 ^ k, ce_blowup_factor |-> b] :
        k \in 3 .. 30, b \in {2, 4, 8}}

DegreeAssertions(ctx) ==
    {single(0, 0, 1)} \cup
    {periodic(0, 0, 2 ^ j, 1) : j \in 1 .. log2(trace_length(ctx))}

InitDegree ==
    /\ context \in DegreeContexts
    /\ seed = 0
    /\ assertions \in {<<a>> : a \in DegreeAssertions(context)}
    /\ out = NoCall
    /\ prev = NoCall
    /\ bc = NoCall

NewGroup ==
    /\ bc.status = "none"
    /\ bc' = [status |-> "group",
              group |-> BoundaryConstraintGroup_new(
                            from_assertion(assertions[1], context),
                            trace_poly_degree(context),
                            composition_degree(context))]
    /\ UNCHANGED <<context, seed, assertions, out, prev>>

NextDegree == NewGroup

SpecDegree == InitDegree /\ [][NextDegree]_vars

-----------------------------------------------------------------------------
(* BoundaryConstraint::new and evaluate_at on their own: constraints are   *)
(* built one after the other with one twiddle map and one coin, and the    *)
(* latest is evaluated.                                                    *)

\* constraints built in one run
MaxConstraints == 2

ConstraintContexts ==
    {[trace_width |-> 2, trace_length |-> n, ce_blowup_factor |-> 2] : n \in {8, 16}}

AssertedValues == {0, 1, 7, 16}
TraceValues == {0, 7}

ConstraintAssertions(ctx) ==
    LET n == trace_length(ctx)
    IN  {single(r, t, v) : r \in {0, 1}, t \in {0, 1, n - 1}, v \in AssertedValues}
        \cup {periodic(r, k[1], k[2], v) :
                  r \in {0, 2}, k \in {<<0, 2>>, <<1, 2>>, <<3, 4>>, <<0, 8>>, <<3, 8>>},
                  v \in AssertedValues}
        \cup {sequence(r, k[1], n \div 2, <<v, w>>) :
                  r \in {0}, k \in {<<0>>, <<3>>}, v \in {1, 16}, w \in {0, 7}}
        \cup {sequence(0, 1, n \div 4, <<v, 2, 0, w>>) : v \in {1, 16}, w \in {0, 7}}
        \cup {sequence(1, 0, n \div 8, <<v, 0, 0, 3, 0, 0, 0, 7>>) : v \in {1, 16}}

InitConstraint ==
    /\ context \in ConstraintContexts
    /\ seed \in Seeds
    /\ assertions = << >>
    /\ out = NoCall
    /\ prev = NoCall
    /\ bc = [status |-> "empty", constraint |-> NoCall, before |-> << >>,
             twiddle_map |-> << >>, coeff_prng |-> new_coin(seed),
             x |-> ZERO, trace_value |-> ZERO, result |-> ZERO]

\* BoundaryConstraint::new on the next assertion; before is the twiddle map
\* the call was given.  evaluate_at takes &self and changes neither the map
\* nor the coin, so a construction after an evaluation reaches nothing that a
\* construction before it does not
NewConstraint ==
    /\ bc.status # "evaluated"
    /\ bc.coeff_prng.draws < MaxConstraints
    /\ \E a \in ConstraintAssertions(context) :
           LET made == BoundaryConstraint_new(a,
                           inv(get_trace_domain_generator(context)),
                           bc.twiddle_map, bc.coeff_prng)
           IN  /\ bc' = [status |-> "built", constraint |-> made.constraint,
                         before |-> bc.twiddle_map,
                         twiddle_map |-> made.twiddle_map,
                         coeff_prng |-> made.coeff_prng,
                         x |-> ZERO, trace_value |-> ZERO, result |-> ZERO]
               /\ assertions' = <<a>>
    /\ UNCHANGED <<context, seed, out, prev>>

\* BoundaryConstraint::evaluate_at on the latest constraint
EvaluateAt ==
    /\ bc.status = "built"
    /\ \E x \in Elements, t \in TraceValues :
           bc' = [bc EXCEPT !.status = "evaluated", !.x = x, !.trace_value = t,
                            !.result = evaluate_at(bc.constraint, x, t)]
    /\ UNCHANGED <<context, seed, assertions, out, prev>>

NextConstraint == NewConstraint \/ EvaluateAt

SpecConstraint == InitConstraint /\ [][NextConstraint]_vars

-----------------------------------------------------------------------------
(* Air::get_transition_constraints (air/mod.rs).  A transition degree is a *)
(* sequence of pairs <<cycle_len, multiplier>>.                            *)

\* transition constraints of one context
MaxTransitions == 3

RECURSIVE sum_multipliers(_, _)
sum_multipliers(deg, i) ==
    IF i > Len(deg) THEN 0 ELSE deg[i][2] + sum_multipliers(deg, i + 1)

RECURSIVE sum_cycles(_, _, _)
sum_cycles(deg, n, i) ==
    IF i > Len(deg) THEN 0
    ELSE (n \div deg[i][1] - 1) * deg[i][2] + sum_cycles(deg, n, i + 1)

\* TransitionConstraintDegree::get_evaluation_degree(trace_length)
get_evaluation_degree(deg, n) ==
    (n - 1) * sum_multipliers(deg, 1) + sum_cycles(deg, n, 1)

\* TransitionConstraintGroup::new
TransitionConstraintGroup_new(deg, degree_adjustment) ==
    [degree |-> deg, degree_adjustment |-> degree_adjustment,
     indexes |-> << >>, coefficients |-> << >>]

\* TransitionConstraintGroup::add
TransitionConstraintGroup_add(group, index, coefficients) ==
    [group EXCEPT !.indexes = Append(@, index),
                  !.coefficients = Append(@, coefficients)]

\* alternative to transition_group_key: the degree descriptor itself
transition_group_key_descriptor(deg, n) == deg

\* the key of the group a transition constraint goes to
transition_group_key(deg, n) == get_evaluation_degree(deg, n)

\* alternative to transition_groups_from: making a group draws a pair as well
RECURSIVE transition_groups_from_draw_on_new(_, _, _, _)
transition_groups_from_draw_on_new(degrees, i, st, ctx) ==
    IF i >= Len(degrees) THEN st
    ELSE LET deg == degrees[i + 1]
             target_degree == usize_add(composition_degree(ctx), trace_poly_degree(ctx))
             evaluation_degree == get_evaluation_degree(deg, trace_length(ctx))
             degree_adjustment == as_u32(usize_sub(target_degree,
                                                   usize(evaluation_degree)))
             key == transition_group_key(deg, trace_length(ctx))
             coin == IF key \in DOMAIN st.groups THEN st.coeff_prng
                     ELSE draw_pair(st.coeff_prng).coin
             groups == or_insert_with(st.groups, key,
                           TransitionConstraintGroup_new(deg, degree_adjustment))
             drawn == draw_pair(coin)
         IN  transition_groups_from_draw_on_new(degrees, i + 1,
                 [groups |-> [groups EXCEPT ![key] =
                                 TransitionConstraintGroup_add(@, i, drawn.pair)],
                  coeff_prng |-> drawn.coin],
                 ctx)

\* the loop over the transition constraint degrees from index i on (i from 0):
\* st holds the locals groups and coeff_prng
RECURSIVE transition_groups_from(_, _, _, _)
transition_groups_from(degrees, i, st, ctx) ==
    IF i >= Len(degrees) THEN st
    ELSE LET deg == degrees[i + 1]
             target_degree == usize_add(composition_degree(ctx), trace_poly_degree(ctx))
             evaluation_degree == get_evaluation_degree(deg, trace_length(ctx))
             degree_adjustment == as_u32(usize_sub(target_degree,
                                                   usize(evaluation_degree)))
             key == transition_group_key(deg, trace_length(ctx))
             groups == or_insert_with(st.groups, key,
                           TransitionConstraintGroup_new(deg, degree_adjustment))
             drawn == draw_pair(st.coeff_prng)
         IN  transition_groups_from(degrees, i + 1,
                 [groups |-> [groups EXCEPT ![key] =
                                 TransitionConstraintGroup_add(@, i, drawn.pair)],
                  coeff_prng |-> drawn.coin],
                 ctx)

\* target_degree - evaluation_degree goes below zero for some constraint
subtract_overflows(ctx) ==
    \E i \in DOMAIN ctx.transition_constraint_degrees :
        less(usize_add(composition_degree(ctx), trace_poly_degree(ctx)),
             usize(get_evaluation_degree(ctx.transition_constraint_degrees[i],
                                         trace_length(ctx))))

\* get_transition_constraints: the groups in the order the map hands them out.
\* A subtraction that goes below zero panics in a build with overflow checks
\* and wraps in one without
get_transition_constraints(ctx, coeff_prng, order, overflow_checks) ==
    LET st == transition_groups_from(ctx.transition_constraint_degrees, 0,
                                     [groups |-> << >>, coeff_prng |-> coeff_prng],
                                     ctx)
    IN  IF overflow_checks /\ subtract_overflows(ctx)
        THEN [status |-> "panic", error |-> "attempt to subtract with overflow",
              groups |-> << >>, draws |-> 0]
        ELSE [status |-> "ok", error |-> "none",
              groups |-> into_values(st.groups, order),
              draws |-> st.coeff_prng.draws]

\* the keys of the map get_transition_constraints builds
transition_keys(ctx) ==
    DOMAIN transition_groups_from(ctx.transition_constraint_degrees, 0,
                                  [groups |-> << >>, coeff_prng |-> new_coin(0)],
                                  ctx).groups

TransitionDegrees ==
    { << <<8, 4>> >>, << <<8, 2>> >>, << <<8, 1>>, <<8, 1>> >>, << <<4, 1>> >> }

TransitionContexts ==
    {[trace_width |-> 2, trace_length |-> 8, ce_blowup_factor |-> 2,
      transition_constraint_degrees |-> ds] :
        ds \in Lists(TransitionDegrees, MaxTransitions)}

InitTransition ==
    /\ context \in TransitionContexts
    /\ seed \in Seeds
    /\ assertions = << >>
    /\ out = NoCall
    /\ prev = NoCall
    /\ bc = NoCall

\* a call of get_transition_constraints with a freshly seeded coin, in
\* either build
GetTransitionConstraints ==
    /\ \E order \in IterationOrders(transition_keys(context)),
          overflow_checks \in BOOLEAN :
           out' = get_transition_constraints(context, new_coin(seed), order,
                                             overflow_checks)
    /\ prev' = out
    /\ UNCHANGED <<context, seed, assertions, bc>>

NextTransition == GetTransitionConstraints

SpecTransition == InitTransition /\ [][NextTransition]_vars

-----------------------------------------------------------------------------
(* A BoundaryConstraintGroup on its own: a group is made for the divisor   *)
(* of a key, assertions of that key are added to it with one twiddle map   *)
(* and one coin, and the group is evaluated and measured.                  *)

GroupAssertions ==
    {single(r, 0, v) : r \in {0, 1}, v \in {1, 7}}
    \cup {periodic(r, 1, 4, v) : r \in {0, 1}, v \in {7}}
    \cup {sequence(r, 1, 4, <<v, 16>>) : r \in {0, 1}, v \in {1, 7}}
    \cup {periodic(r, 0, 2, v) : r \in {0, 1}, v \in {7}}
    \cup {sequence(r, 0, 2, <<v, 2, 0, 16>>) : r \in {0, 1}, v \in {1, 7}}

StateVectors == [0 .. 1 -> {0, 7}]
Points == {2, 5}
PointPowers == {0, 3}

InitGroup ==
    /\ context \in Contexts
    /\ seed \in Seeds
    /\ assertions = << >>
    /\ out = NoCall
    /\ prev = NoCall
    /\ \E a \in GroupAssertions :
           bc = [status |-> "group",
                 group |-> BoundaryConstraintGroup_new(from_assertion(a, context),
                                                       trace_poly_degree(context),
                                                       composition_degree(context)),
                 twiddle_map |-> << >>, coeff_prng |-> new_coin(seed),
                 state |-> [r \in 0 .. 1 |-> ZERO], x |-> ZERO, xp |-> ZERO,
                 result |-> ZERO, degree |-> NoCall]

\* BoundaryConstraintGroup::add of an assertion with the divisor of the group
GroupAdd ==
    /\ Len(bc.group.constraints) < MaxConstraints
    /\ \E a \in GroupAssertions :
           /\ from_assertion(a, context) = bc.group.divisor
           /\ LET added == BoundaryConstraintGroup_add(bc.group, a,
                               inv(get_trace_domain_generator(context)),
                               bc.twiddle_map, bc.coeff_prng)
              IN  bc' = [bc EXCEPT !.status = "group", !.group = added.group,
                                   !.twiddle_map = added.twiddle_map,
                                   !.coeff_prng = added.coeff_prng,
                                   !.result = ZERO, !.degree = NoCall]
           /\ assertions' = Append(assertions, a)
    /\ UNCHANGED <<context, seed, out, prev>>

\* BoundaryConstraintGroup::evaluate_at
GroupEvaluateAt ==
    /\ bc.status = "group"
    /\ \E state \in StateVectors, x \in Points, xp \in PointPowers :
           bc' = [bc EXCEPT !.status = "evaluated", !.state = state, !.x = x,
                            !.xp = xp,
                            !.result = BoundaryConstraintGroup_evaluate_at(
                                           bc.group, state, x, xp)]
    /\ UNCHANGED <<context, seed, assertions, out, prev>>

\* BoundaryConstraintGroup::max_poly_degree, in either build
GroupMaxPolyDegree ==
    /\ bc.status = "group"
    /\ \E overflow_checks \in BOOLEAN :
           bc' = [bc EXCEPT !.status = "measured",
                            !.degree = max_poly_degree(bc.group, overflow_checks)]
    /\ UNCHANGED <<context, seed, assertions, out, prev>>

NextGroup == GroupAdd \/ GroupEvaluateAt \/ GroupMaxPolyDegree

SpecGroup == InitGroup /\ [][NextGroup]_vars

-----------------------------------------------------------------------------
(* Air::get_periodic_column_polys (air/mod.rs).                            *)

MIN_CYCLE_LENGTH == 2

\* periodic columns of one computation
MaxColumns == 3

\* alternative to periodic_from: the cycle length is not compared with the
\* trace length
RECURSIVE periodic_from_any_length(_, _, _, _)
periodic_from_any_length(columns, i, st, n) ==
    IF i > Len(columns) THEN st
    ELSE LET column == columns[i]
             cycle_length == Len(column)
         IN  IF ~(cycle_length >= MIN_CYCLE_LENGTH)
             THEN [st EXCEPT !.status = "panic", !.error = "AtLeast"]
             ELSE IF ~is_power_of_two(cycle_length)
             THEN [st EXCEPT !.status = "panic", !.error = "PowerOfTwo"]
             ELSE LET miss == cycle_length \notin DOMAIN st.twiddle_map
                      twiddle_map == or_insert_with(st.twiddle_map, cycle_length,
                                                    get_inv_twiddles(cycle_length))
                      poly == interpolate_poly(column, twiddle_map[cycle_length])
                  IN  periodic_from_any_length(columns, i + 1,
                          [st EXCEPT !.polys = Append(@, poly),
                                     !.twiddle_map = twiddle_map,
                                     !.built = IF miss THEN @ + 1 ELSE @],
                          n)

\* the closure of get_periodic_column_polys over the columns from the i-th on;
\* st holds the polynomials collected, the twiddle map and the number of
\* calls of fft::get_inv_twiddles
RECURSIVE periodic_from(_, _, _, _)
periodic_from(columns, i, st, n) ==
    IF i > Len(columns) THEN st
    ELSE LET column == columns[i]
             cycle_length == Len(column)
         IN  IF ~(cycle_length >= MIN_CYCLE_LENGTH)
             THEN [st EXCEPT !.status = "panic", !.error = "AtLeast"]
             ELSE IF ~is_power_of_two(cycle_length)
             THEN [st EXCEPT !.status = "panic", !.error = "PowerOfTwo"]
             ELSE IF ~(cycle_length <= n)
             THEN [st EXCEPT !.status = "panic", !.error = "ExceedsTraceLength"]
             ELSE LET miss == cycle_length \notin DOMAIN st.twiddle_map
                      twiddle_map == or_insert_with(st.twiddle_map, cycle_length,
                                                    get_inv_twiddles(cycle_length))
                      poly == interpolate_poly(column, twiddle_map[cycle_length])
                  IN  periodic_from(columns, i + 1,
                          [st EXCEPT !.polys = Append(@, poly),
                                     !.twiddle_map = twiddle_map,
                                     !.built = IF miss THEN @ + 1 ELSE @],
                          n)

\* Air::get_periodic_column_polys
get_periodic_column_polys(columns, n) ==
    periodic_from(columns, 1,
                  [status |-> "ok", error |-> "none", polys |-> << >>,
                   twiddle_map |-> << >>, built |-> 0],
                  n)

PeriodicColumns ==
    { <<1>>, <<1, 2, 3>>, <<3, 5>>, <<7, 16>>, <<1, 2, 0, 16>>,
      <<16, 0, 0, 3, 0, 0, 0, 7>>,
      <<1, 0, 0, 0, 0, 0, 0, 0, 2, 0, 0, 0, 0, 0, 0, 5>> }

PeriodicContexts ==
    {[trace_width |-> 2, trace_length |-> 8, ce_blowup_factor |-> 2,
      periodic_column_values |-> cs] : cs \in Lists(PeriodicColumns, MaxColumns)}

InitPeriodic ==
    /\ context \in PeriodicContexts
    /\ seed = 0
    /\ assertions = << >>
    /\ out = NoCall
    /\ prev = NoCall
    /\ bc = NoCall

GetPeriodicColumnPolys ==
    /\ out.status = "none"
    /\ out' = get_periodic_column_polys(context.periodic_column_values,
                                        trace_length(context))
    /\ UNCHANGED <<context, seed, assertions, prev, bc>>

NextPeriodic == GetPeriodicColumnPolys

SpecPeriodic == InitPeriodic /\ [][NextPeriodic]_vars

-----------------------------------------------------------------------------
(* ProofOptions (common/src/options.rs).  The fields are u8.               *)

as_u8(n) == n % 256

\* usize::trailing_zeros
RECURSIVE trailing_zeros(_)
trailing_zeros(n) ==
    IF n = 0 THEN 64 ELSE IF n % 2 = 1 THEN 0 ELSE 1 + trailing_zeros(n \div 2)

\* alternative to ProofOptions_new: no lower limit on blowup_factor
ProofOptions_new_no_minimum(num_queries, blowup_factor, grinding_factor) ==
    IF ~(num_queries > 0)
    THEN [status |-> "panic", error |-> "num_queries must be greater than 0"]
    ELSE IF ~(num_queries <= 128)
    THEN [status |-> "panic", error |-> "num_queries cannot be greater than 128"]
    ELSE IF ~is_power_of_two(blowup_factor)
    THEN [status |-> "panic", error |-> "blowup_factor must be a power of 2"]
    ELSE IF ~(blowup_factor <= 256)
    THEN [status |-> "panic", error |-> "blowup_factor cannot be greater than 256"]
    ELSE IF ~(grinding_factor <= 32)
    THEN [status |-> "panic", error |-> "grinding factor cannot be greater than 32"]
    ELSE [status |-> "ok", error |-> "none",
          options |-> [num_queries |-> as_u8(num_queries),
                       blowup_factor |-> as_u8(trailing_zeros(blowup_factor)),
                       grinding_factor |-> as_u8(grinding_factor)]]

\* ProofOptions::new: the asserts in their order, then the fields
ProofOptions_new(num_queries, blowup_factor, grinding_factor) ==
    IF ~(num_queries > 0)
    THEN [status |-> "panic", error |-> "num_queries must be greater than 0"]
    ELSE IF ~(num_queries <= 128)
    THEN [status |-> "panic", error |-> "num_queries cannot be greater than 128"]
    ELSE IF ~is_power_of_two(blowup_factor)
    THEN [status |-> "panic", error |-> "blowup_factor must be a power of 2"]
    ELSE IF ~(blowup_factor >= 4)
    THEN [status |-> "panic", error |-> "blowup_factor cannot be smaller than 4"]
    ELSE IF ~(blowup_factor <= 256)
    THEN [status |-> "panic", error |-> "blowup_factor cannot be greater than 256"]
    ELSE IF ~(grinding_factor <= 32)
    THEN [status |-> "panic", error |-> "grinding factor cannot be greater than 32"]
    ELSE [status |-> "ok", error |-> "none",
          options |-> [num_queries |-> as_u8(num_queries),
                       blowup_factor |-> as_u8(trailing_zeros(blowup_factor)),
                       grinding_factor |-> as_u8(grinding_factor)]]

\* ProofOptions::num_queries
num_queries(options) == options.num_queries

\* alternative to blowup_factor: the stored field as it is
blowup_factor_stored(options) == options.blowup_factor

\* ProofOptions::blowup_factor: 1 << self.blowup_factor
blowup_factor(options) == pow2(options.blowup_factor)

\* ProofOptions::grinding_factor
grinding_factor(options) == options.grinding_factor

QueryCounts == {0, 1, 2, 64, 127, 128, 129, 256, 257}
BlowupFactors == {0, 1, 2, 3, 4, 6, 8, 16, 128, 256, 257, 512}
GrindingFactors == {0, 1, 16, 32, 33, 256, 288}

\* context holds the arguments of ProofOptions::new
InitOptions ==
    /\ context \in [num_queries : QueryCounts, blowup_factor : BlowupFactors,
                     grinding_factor : GrindingFactors]
    /\ seed = 0
    /\ assertions = << >>
    /\ out = NoCall
    /\ prev = NoCall
    /\ bc = NoCall

NewOptions ==
    /\ out.status = "none"
    /\ out' = ProofOptions_new(context.num_queries, context.blowup_factor,
                               context.grinding_factor)
    /\ UNCHANGED <<context, seed, assertions, prev, bc>>

\* the three accessors on the options made
ReadOptions ==
    /\ out.status = "ok"
    /\ bc.status = "none"
    /\ bc' = [status |-> "read",
              num_queries |-> num_queries(out.options),
              blowup_factor |-> blowup_factor(out.options),
              grinding_factor |-> grinding_factor(out.options)]
    /\ UNCHANGED <<context, seed, assertions, out, prev>>

NextOptions == NewOptions \/ ReadOptions

SpecOptions == InitOptions /\ [][NextOptions]_vars

-----------------------------------------------------------------------------
(* build_query_seed (verifier/src/channel.rs).  The hash function is not   *)
(* modelled: the seed it returns is any value.  Of the seed the first 8    *)
(* bytes are kept, which is all the proof of work reads.                   *)

\* u8::trailing_zeros and u8::leading_zeros of a byte
RECURSIVE byte_trailing_zeros(_)
byte_trailing_zeros(b) ==
    IF b = 0 THEN 8 ELSE IF b % 2 = 1 THEN 0 ELSE 1 + byte_trailing_zeros(b \div 2)

RECURSIVE byte_leading_zeros(_)
byte_leading_zeros(b) ==
    IF b = 0 THEN 8 ELSE IF b >= 128 THEN 0 ELSE 1 + byte_leading_zeros(2 * b)

\* alternative to u64_trailing_zeros: u64::leading_zeros of
\* u64::from_le_bytes(bytes), from the last byte down
RECURSIVE u64_leading_zeros_from(_, _)
u64_leading_zeros_from(bytes, i) ==
    IF i < 1 THEN 0
    ELSE IF bytes[i] = 0 THEN 8 + u64_leading_zeros_from(bytes, i - 1)
    ELSE byte_leading_zeros(bytes[i])

u64_leading_zeros(bytes) == u64_leading_zeros_from(bytes, 8)

\* u64::trailing_zeros of u64::from_le_bytes(bytes): the low bits are those
\* of the first byte
RECURSIVE u64_trailing_zeros_from(_, _)
u64_trailing_zeros_from(bytes, i) ==
    IF i > 8 THEN 0
    ELSE IF bytes[i] = 0 THEN 8 + u64_trailing_zeros_from(bytes, i + 1)
    ELSE byte_trailing_zeros(bytes[i])

u64_trailing_zeros(bytes) == u64_trailing_zeros_from(bytes, 1)

\* build_query_seed from the second hash on: query_seed is what hash_fn wrote
build_query_seed(query_seed, options) ==
    IF u64_trailing_zeros(SubSeq(query_seed, 1, 8)) < grinding_factor(options)
    THEN [status |-> "error", error |-> "QuerySeedProofOfWorkVerificationFailed",
          query_seed |-> query_seed]
    ELSE [status |-> "ok", error |-> "none", query_seed |-> query_seed]

SeedBytes == {0, 1, 16, 128}

QuerySeeds ==
    {<<a, b, 0, 0, c, 0, 0, d>> : a \in SeedBytes, b \in SeedBytes,
                                   c \in SeedBytes, d \in SeedBytes}

\* context holds the options of the proof
InitQuerySeed ==
    /\ context \in {ProofOptions_new(32, 8, g).options : g \in {0, 1, 7, 8, 9, 16, 32}}
    /\ seed = 0
    /\ assertions = << >>
    /\ out = NoCall
    /\ prev = NoCall
    /\ bc = NoCall

BuildQuerySeed ==
    /\ out.status = "none"
    /\ \E query_seed \in QuerySeeds : out' = build_query_seed(query_seed, context)
    /\ UNCHANGED <<context, seed, assertions, prev, bc>>

NextQuerySeed == BuildQuerySeed

SpecQuerySeed == InitQuerySeed /\ [][NextQuerySeed]_vars

-----------------------------------------------------------------------------
(* TraceTable::build_commitment with the feature "concurrent"              *)
(* (prover/src/monolith/trace/trace_table.rs).  The batches of             *)
(* par_chunks_mut run in any interleaving, each hashing its rows in order. *)
(* context holds the length of the table and the number of threads.        *)

\* threads of the pool
MaxThreads == 5

TableLengths == {1, 2, 4, 8}

\* usize::next_power_of_two
RECURSIVE next_power_of_two_from(_, _)
next_power_of_two_from(n, p) == IF p >= n THEN p ELSE next_power_of_two_from(n, 2 * p)

next_power_of_two(n) == next_power_of_two_from(n, 1)

\* the table: two registers, the value of each at every step
trace_data(len) ==
    <<[step \in 0 .. (len - 1) |-> step % M],
      [step \in 0 .. (len - 1) |-> (3 * step + 1) % M]>>

\* TraceTable::read_row_into: the row at a step
read_row_into(data, step) == [r \in 1 .. Len(data) |-> data[r][step]]

\* the hash function, kept abstract: the hash of a row stands for the row
hash_fn(row) == <<"hash", row>>

\* what the loop without the feature "concurrent" writes
sequential_hashed_states(data, len) ==
    [i \in 0 .. (len - 1) |-> hash_fn(read_row_into(data, i))]

\* offset = batch_idx * batch_size
batch_offset(batch_idx, batch_size) == batch_idx * batch_size

InitCommitment ==
    /\ context \in [len : TableLengths, num_threads : 1 .. MaxThreads]
    /\ seed = 0
    /\ assertions = << >>
    /\ out = NoCall
    /\ prev = NoCall
    /\ bc = NoCall

\* build_commitment up to the start of the batches: par_chunks_mut panics on
\* a chunk size of 0
StartBatches ==
    /\ bc.status = "none"
    /\ LET batch_size == context.len \div next_power_of_two(context.num_threads)
       IN  IF batch_size = 0
           THEN /\ bc' = [status |-> "panic", error |-> "chunk_size must not be zero"]
                /\ out' = [status |-> "panic", error |-> "chunk_size must not be zero"]
           ELSE /\ bc' = [status |-> "hashing", batch_size |-> batch_size,
                          hashed_states |-> [i \in 0 .. (context.len - 1) |-> "uninit"],
                          hashed |-> [b \in 0 .. (context.len \div batch_size - 1) |-> 0],
                          writes |-> [i \in 0 .. (context.len - 1) |-> 0]]
                /\ out' = out
    /\ UNCHANGED <<context, seed, assertions, prev>>

\* one iteration of the loop of one batch: row i + offset is hashed into the
\* i-th slot of the batch, which is slot batch_idx * batch_size + i of the vector
HashRow ==
    /\ bc.status = "hashing"
    /\ \E batch_idx \in DOMAIN bc.hashed :
           /\ bc.hashed[batch_idx] < bc.batch_size
           /\ LET i == bc.hashed[batch_idx]
                  offset == batch_offset(batch_idx, bc.batch_size)
                  slot == batch_idx * bc.batch_size + i
                  row == IF i + offset < context.len
                         THEN read_row_into(trace_data(context.len), i + offset)
                         ELSE "out of bounds"
              IN  bc' = [bc EXCEPT !.hashed_states[slot] = hash_fn(row),
                                   !.writes[slot] = @ + 1,
                                   !.hashed[batch_idx] = @ + 1]
    /\ UNCHANGED <<context, seed, assertions, out, prev>>

\* MerkleTree::new(hashed_states, hash_fn) once every batch has ended
BuildTree ==
    /\ bc.status = "hashing"
    /\ \A batch_idx \in DOMAIN bc.hashed : bc.hashed[batch_idx] = bc.batch_size
    /\ bc' = [bc EXCEPT !.status = "done"]
    /\ out' = [status |-> "ok", error |-> "none", leaves |-> bc.hashed_states]
    /\ UNCHANGED <<context, seed, assertions, prev>>

NextCommitment == StartBatches \/ HashRow \/ BuildTree

SpecCommitment == InitCommitment /\ [][NextCommitment]_vars

-----------------------------------------------------------------------------
(* Vocabulary of the properties.                                           *)

Called == out.status # "none"
Accepted == out.status = "ok"
N == trace_length(context)

\* the canonical order: by stride, then first_step, then register
CanonLess(a, b) ==
    \/ a.stride < b.stride
    \/ a.stride = b.stride /\ a.first_step < b.first_step
    \/ a.stride = b.stride /\ a.first_step = b.first_step /\ a.register < b.register

\* position of an input assertion in the canonical order of the input
Rank(a) == 1 + Cardinality({i \in DOMAIN assertions : CanonLess(assertions[i], a)})

\* the j-th pair of the stream of the coin seeded with seed
NthPair(j) == draw_pair([seed |-> seed, draws |-> j - 1]).pair

\* the steps an assertion constrains on a trace of n steps
StepSet(a, n) ==
    IF a.stride = 0 THEN {a.first_step}
    ELSE {t \in 0 .. (n - 1) : t >= a.first_step /\ (t - a.first_step) % a.stride = 0}

Intersect(a, b) ==
    a.register = b.register /\ StepSet(a, N) \cap StepSet(b, N) # {}

ValidAssertion(a) ==
    /\ a.register < trace_width(context)
    /\ a.first_step < N
    /\ a.stride # 0 => N % a.stride = 0
    /\ Len(a.values) > 1 => Len(a.values) * a.stride = N

AllValid == \A i \in DOMAIN assertions : ValidAssertion(assertions[i])

SomeOverlap ==
    \E i, j \in DOMAIN assertions : i # j /\ Intersect(assertions[i], assertions[j])

\* the places <<group, constraint>> of the returned list
Places(r) ==
    {<<g, c>> : g \in DOMAIN r.groups, c \in 1 .. MaxAssertions} \cap
    {p \in (DOMAIN r.groups) \X (1 .. MaxAssertions) :
        p[2] \in DOMAIN r.groups[p[1]].constraints}

ConstraintAt(r, p) == r.groups[p[1]].constraints[p[2]]

\* the places holding the pair an input assertion is due
PlacesOf(a) == {p \in Places(out) : ConstraintAt(out, p).cc = NthPair(Rank(a))}

-----------------------------------------------------------------------------
(* C1: for a fixed context, assertion set and seed, every call returns the *)
(* same list of groups, whatever the order of the input list, also when    *)
(* groups have equal degree_adjustment.  The groups are collected from a   *)
(* HashMap, so groups of equal degree_adjustment come out in any order.    *)
C1_Deterministic == prev.status = "ok" => out.groups = prev.groups

-----------------------------------------------------------------------------
(* C2: the assertion at position j of the canonical order receives the     *)
(* j-th pair of the coin, whatever the order of the input list.            *)
C2_CanonicalCoefficients ==
    Accepted =>
        \A i \in DOMAIN assertions :
            /\ Cardinality(PlacesOf(assertions[i])) = 1
            /\ \A p \in PlacesOf(assertions[i]) :
                   /\ ConstraintAt(out, p).register = assertions[i].register
                   /\ Len(ConstraintAt(out, p).poly) = Len(assertions[i].values)
                   /\ Len(assertions[i].values) = 1 =>
                          ConstraintAt(out, p).poly = assertions[i].values
                   /\ out.groups[p[1]].divisor = from_assertion(assertions[i], context)

C2_Witness ==
    /\ Accepted
    /\ Len(assertions) = 3
    /\ CanonLess(assertions[3], assertions[2])
    /\ CanonLess(assertions[2], assertions[1])

-----------------------------------------------------------------------------
(* C3: an input with two assertions on one register whose step sets        *)
(* intersect is rejected, in either input order; an input of valid         *)
(* assertions none of which intersect is accepted.                         *)
C3_OverlapRejected ==
    Called =>
        /\ SomeOverlap => out.status = "panic"
        /\ (AllValid /\ SomeOverlap) => out.error = "AssertionOverlap"
        /\ (AllValid /\ ~SomeOverlap) => out.status = "ok"

C3_Witness ==
    /\ out.status = "panic"
    /\ out.error = "AssertionOverlap"
    /\ assertions = <<periodic(0, 2, 4, 5), single(1, 0, 2), single(0, 2, 9)>>

-----------------------------------------------------------------------------
(* C4: prepare_assertions returns the accepted input sorted by stride,     *)
(* then first_step, then register.                                         *)
C4_CanonicalOrder ==
    Accepted =>
        /\ Len(out.sorted) = Len(assertions)
        /\ \A i \in DOMAIN assertions : \E j \in DOMAIN out.sorted :
               out.sorted[j] = assertions[i]
        /\ \A j \in 1 .. (Len(out.sorted) - 1) :
               CanonLess(out.sorted[j], out.sorted[j + 1])

C4_Witness ==
    /\ Accepted
    /\ Len(assertions) = 3
    /\ assertions[1].stride > assertions[2].stride
    /\ assertions[2].stride = assertions[3].stride
    /\ assertions[2].first_step = assertions[3].first_step
    /\ assertions[2].register > assertions[3].register

-----------------------------------------------------------------------------
(* C5: every assertion is exactly one constraint of exactly one group, two *)
(* assertions share a group iff they have the same (stride, first_step),   *)
(* and there are as many groups as distinct keys.                          *)
KeysOfInput ==
    {<<assertions[i].stride, assertions[i].first_step>> : i \in DOMAIN assertions}

C5_GroupedByKey ==
    Accepted =>
        /\ Cardinality(Places(out)) = Len(assertions)
        /\ \A i \in DOMAIN assertions : Cardinality(PlacesOf(assertions[i])) = 1
        /\ \A i, j \in DOMAIN assertions :
               \A p \in PlacesOf(assertions[i]), q \in PlacesOf(assertions[j]) :
                   (p[1] = q[1]) <=>
                       /\ assertions[i].stride = assertions[j].stride
                       /\ assertions[i].first_step = assertions[j].first_step
        /\ Len(out.groups) = Cardinality(KeysOfInput)

C5_Witness ==
    /\ Accepted
    /\ Len(assertions) = 3
    /\ Len(out.groups) = 2

-----------------------------------------------------------------------------
(* C6: the returned list is sorted by ascending degree_adjustment, and     *)
(* groups of equal degree_adjustment keep the order in which the canonical *)
(* traversal created them.  The first holds; the order among equal groups  *)
(* is the HashMap's.                                                       *)
\* the position in the coin's stream of the pair of a group's first constraint
Created(g) ==
    CHOOSE j \in 1 .. MaxAssertions : out.groups[g].constraints[1].cc = NthPair(j)

C6_StablySorted ==
    Accepted =>
        \A g, h \in DOMAIN out.groups :
            g < h =>
                /\ ~less(out.groups[h].degree_adjustment, out.groups[g].degree_adjustment)
                /\ out.groups[g].degree_adjustment = out.groups[h].degree_adjustment
                       => Created(g) < Created(h)

-----------------------------------------------------------------------------
(* C7: degree_adjustment = composition_degree + divisor.degree() -         *)
(* trace_poly_degree: the subtraction does not underflow and the           *)
(* conversion to u32 does not truncate.  (SpecDegree)                      *)
AssertedSteps(a) == IF a.stride = 0 THEN 1 ELSE N \div a.stride

C7_DegreeAdjustment ==
    bc.status = "group" =>
        LET target == usize_add(composition_degree(context),
                                usize(AssertedSteps(assertions[1])))
        IN  /\ ~less(target, trace_poly_degree(context))
            /\ usize_add(as_usize(bc.group.degree_adjustment),
                         trace_poly_degree(context)) = target

-----------------------------------------------------------------------------
(* C8: the divisor of the group of an assertion has as degree the number   *)
(* of asserted steps (N / stride, 1 for a single assertion) and vanishes   *)
(* at g^j, 0 <= j < N, exactly for the asserted steps j.                   *)
C8_Divisor ==
    Accepted =>
        \A i \in DOMAIN assertions : \A p \in PlacesOf(assertions[i]) :
            LET a == assertions[i]
                d == out.groups[p[1]].divisor
                g == get_trace_domain_generator(context)
            IN  /\ a.stride = 0 => degree(d) = 1
                /\ a.stride # 0 => degree(d) * a.stride = N
                /\ \A j \in 0 .. (N - 1) :
                       (divisor_evaluate_at(d, exp(g, j)) = ZERO) <=> j \in StepSet(a, N)

C8_Witness ==
    /\ Accepted
    /\ \E i, j \in DOMAIN assertions :
           /\ assertions[i].stride = 4 /\ assertions[i].first_step = 2
           /\ assertions[j].stride = 0 /\ assertions[j].first_step = 0
           /\ \E p \in PlacesOf(assertions[i]) : degree(out.groups[p[1]].divisor) = 2
           /\ \E p \in PlacesOf(assertions[j]) : degree(out.groups[p[1]].divisor) = 1

-----------------------------------------------------------------------------
(* C9: an assertion with one value, single or periodic, whatever its       *)
(* stride and first_step, compiles to register = its register,             *)
(* poly = [value] and poly_offset = (0, ONE).  (SpecConstraint)            *)
Built == bc.status \in {"built", "evaluated"}

C9_SingleValueConstant ==
    (Built /\ Len(assertions[1].values) = 1) =>
        /\ bc.constraint.register = assertions[1].register
        /\ bc.constraint.poly = <<assertions[1].values[1]>>
        /\ bc.constraint.poly_offset = <<0, ONE>>

C9_Witness ==
    /\ bc.status = "built"
    /\ assertions[1] = periodic(2, 3, 8, 7)

-----------------------------------------------------------------------------
(* C10: a constraint of a single-value assertion with value v evaluates to *)
(* trace_value - v at every point x.  (SpecConstraint)                     *)
C10_EvaluatesToDifference ==
    (bc.status = "evaluated" /\ Len(assertions[1].values) = 1) =>
        (bc.result + assertions[1].values[1]) % M = bc.trace_value

C10_Witness ==
    /\ bc.status = "evaluated"
    /\ assertions[1] = periodic(0, 3, 4, 16)
    /\ bc.x = 5
    /\ bc.trace_value = 7
    /\ bc.result = 8

-----------------------------------------------------------------------------
(* The interpolant of k values over the k-th roots of unity, by Lagrange's *)
(* formula: the polynomial of degree below k with value values[i + 1] at   *)
(* w^i, evaluated at y.                                                    *)
RECURSIVE LagrangeBasis(_, _, _, _, _)
LagrangeBasis(w, k, i, y, j) ==
    IF j >= k THEN ONE
    ELSE IF j = i THEN LagrangeBasis(w, k, i, y, j + 1)
    ELSE mul(mul(sub(y, exp(w, j)), inv(sub(exp(w, i), exp(w, j)))),
             LagrangeBasis(w, k, i, y, j + 1))

RECURSIVE LagrangeSum(_, _, _, _)
LagrangeSum(values, w, y, i) ==
    IF i >= Len(values) THEN ZERO
    ELSE add(mul(values[i + 1], LagrangeBasis(w, Len(values), i, y, 0)),
             LagrangeSum(values, w, y, i + 1))

Interpolant(values, y) ==
    LagrangeSum(values, get_root_of_unity(log2(Len(values))), y, 0)

InvG == inv(get_trace_domain_generator(context))

(* C11: a constraint of an assertion with several values has poly_offset   *)
(* (0, ONE) when first_step = 0 and (first_step, inv_g^first_step)         *)
(* otherwise, and evaluates at x to t - P(x * inv_g^first_step), P the     *)
(* interpolant of the values over the k-th roots of unity.                 *)
(* (SpecConstraint)                                                        *)
C11_ShiftedDomain ==
    (Built /\ Len(assertions[1].values) > 1) =>
        LET a == assertions[1]
            shift == exp(InvG, a.first_step)
        IN  /\ bc.constraint.poly_offset =
                   IF a.first_step = 0 THEN <<0, ONE>> ELSE <<a.first_step, shift>>
            /\ bc.status = "evaluated" =>
                   bc.result = sub(bc.trace_value,
                                   Interpolant(a.values, mul(bc.x, shift)))

C11_Witness ==
    /\ bc.status = "evaluated"
    /\ trace_length(context) = 8
    /\ assertions[1] = sequence(0, 3, 4, <<16, 7>>)
    /\ bc.constraint.poly_offset[1] = 3
    /\ bc.x = 5
    /\ bc.trace_value = 7

-----------------------------------------------------------------------------
(* C12: the polynomial built from k > 1 values has length k and takes the  *)
(* value v_i at w^i for every i below k, w the primitive k-th root of      *)
(* unity.  (SpecConstraint)                                                *)
C12_InterpolationRoundTrip ==
    (Built /\ Len(assertions[1].values) > 1) =>
        LET v == assertions[1].values
            w == get_root_of_unity(log2(Len(v)))
        IN  /\ Len(bc.constraint.poly) = Len(v)
            /\ \A i \in 0 .. (Len(v) - 1) :
                   eval(bc.constraint.poly, exp(w, i)) = v[i + 1]

C12_Witness ==
    /\ bc.status = "built"
    /\ assertions[1].values = <<16, 2, 0, 7>>
    /\ Len(bc.constraint.poly) = 4
    /\ bc.constraint.poly # assertions[1].values

-----------------------------------------------------------------------------
(* C14: BoundaryConstraint::new leaves the twiddle map as it was given for *)
(* an assertion with one value; for n > 1 values it adds the entry of key  *)
(* n when the map has none, and keeps every entry the map had, so the map  *)
(* holds one entry for each length above 1 seen so far.  (SpecConstraint)  *)
C14_TwiddleCache ==
    Built =>
        LET n == Len(assertions[1].values)
        IN  /\ n = 1 => bc.twiddle_map = bc.before
            /\ n > 1 =>
                   /\ DOMAIN bc.twiddle_map = (DOMAIN bc.before) \cup {n}
                   /\ bc.twiddle_map[n] = get_inv_twiddles(n)
            /\ \A k \in DOMAIN bc.before : bc.twiddle_map[k] = bc.before[k]
            /\ Cardinality(DOMAIN bc.twiddle_map) <= bc.coeff_prng.draws
            /\ 1 \notin DOMAIN bc.twiddle_map

C14_Witness ==
    /\ bc.status = "built"
    /\ Len(assertions[1].values) = 4
    /\ DOMAIN bc.before = {2}
    /\ DOMAIN bc.twiddle_map = {2, 4}

-----------------------------------------------------------------------------
(* C15: the polynomial built with the twiddle map of the earlier           *)
(* constructions, whether or not it holds the entry for the number of      *)
(* values or entries for other lengths, is the polynomial built with an    *)
(* empty map.  (SpecConstraint)                                            *)
C15_CacheTransparent ==
    Built =>
        bc.constraint.poly =
            BoundaryConstraint_new(assertions[1], InvG, << >>,
                                   new_coin(seed)).constraint.poly

C15_Witness ==
    /\ bc.status = "built"
    /\ Len(assertions[1].values) = 4
    /\ DOMAIN bc.before = {4}
    /\ bc.constraint.poly # assertions[1].values

-----------------------------------------------------------------------------
(* C13: each BoundaryConstraintGroup::add draws two pairs from the coin,   *)
(* so that compiling n assertions advances the coin by 2n pair draws.      *)
(* The code draws one pair (two field elements) per add: n assertions      *)
(* advance the coin by n pair draws.                                       *)
C13_TwoPairsPerAdd == Accepted => out.draws = 2 * Len(assertions)

\* as the code has it: one pair per add, the pairs 1 .. n of the stream each
\* held by one constraint
C13_OnePairPerAdd ==
    Accepted =>
        /\ out.draws = Len(assertions)
        /\ {ConstraintAt(out, p).cc : p \in Places(out)} =
               {NthPair(j) : j \in 1 .. Len(assertions)}

C13_Witness ==
    /\ Accepted
    /\ Len(assertions) = 3
    /\ out.draws = 3
    /\ Len(out.groups) = 2

-----------------------------------------------------------------------------
(* C16: BoundaryConstraintGroup::evaluate_at(state, x, xp) is the sum over *)
(* the constraints c of the group of                                       *)
(* c.evaluate_at(x, state[c.register]) * (c.cc.0 + c.cc.1 * xp); it is     *)
(* zero for a group without constraints and depends only on the state      *)
(* entries of the registers that have a constraint.  (SpecGroup)           *)
RECURSIVE SumOver(_, _, _, _, _)
SumOver(S, constraints, state, x, xp) ==
    IF S = {} THEN ZERO
    ELSE LET i == CHOOSE j \in S : \A k \in S : k <= j
             c == constraints[i]
         IN  add(mul(evaluate_at(c, x, state[c.register]),
                     add(c.cc[1], mul(c.cc[2], xp))),
                 SumOver(S \ {i}, constraints, state, x, xp))

C16_GroupEvaluation ==
    bc.status = "evaluated" =>
        LET cs == bc.group.constraints
            used == {cs[i].register : i \in DOMAIN cs}
        IN  /\ bc.result = SumOver(DOMAIN cs, cs, bc.state, bc.x, bc.xp)
            /\ cs = << >> => bc.result = ZERO
            /\ \A other \in StateVectors :
                   (\A r \in used : other[r] = bc.state[r]) =>
                       BoundaryConstraintGroup_evaluate_at(bc.group, other,
                                                           bc.x, bc.xp) = bc.result

C16_Witness ==
    /\ bc.status = "evaluated"
    /\ assertions = <<sequence(1, 1, 4, <<7, 16>>), periodic(1, 1, 4, 7)>>
    /\ bc.state = [r \in 0 .. 1 |-> IF r = 1 THEN 0 ELSE 7]
    /\ bc.x = 5
    /\ bc.xp = 3
    /\ bc.result # ZERO

-----------------------------------------------------------------------------
(* C17: max_poly_degree of any group is the greatest length of the         *)
(* polynomials of its constraints, minus 1: 0 for a group whose            *)
(* constraints all have one value.  For a group without constraints the    *)
(* code computes 0 - 1 in usize.  (SpecGroup)                              *)
MaxOf(S) == IF S = {} THEN 0 ELSE CHOOSE m \in S : \A k \in S : k <= m

C17_MaxPolyDegree ==
    bc.status = "measured" =>
        LET cs == bc.group.constraints
            lens == {Len(cs[i].poly) : i \in DOMAIN cs}
        IN  /\ bc.degree.status = "ok"
            /\ bc.degree.value =
                   IF \A l \in lens : l = 1 THEN usize(0) ELSE usize(MaxOf(lens) - 1)

\* the same for the groups that hold a constraint
C17_NonEmpty ==
    (bc.status = "measured" /\ bc.group.constraints # << >>) =>
        LET cs == bc.group.constraints
            lens == {Len(cs[i].poly) : i \in DOMAIN cs}
        IN  /\ bc.degree.status = "ok"
            /\ bc.degree.value = usize(MaxOf(lens) - 1)

-----------------------------------------------------------------------------
(* C18: get_boundary_constraints fails with RegisterOutOfRange on an       *)
(* assertion whose register is not below the trace width, with             *)
(* StepOutOfRange on one whose first_step is not below the trace length or *)
(* whose stride does not divide it, and accepts an input in which every    *)
(* assertion passes both checks and no two overlap.  Of several failures   *)
(* the one met first is reported.                                          *)
BadRegister(a) == a.register >= trace_width(context)
BadStep(a) == a.first_step >= N \/ (a.stride # 0 /\ N % a.stride # 0)

C18_Validation ==
    Called =>
        LET bad_register == \E i \in DOMAIN assertions : BadRegister(assertions[i])
            bad_step == \E i \in DOMAIN assertions : BadStep(assertions[i])
        IN  /\ (bad_register \/ bad_step) => out.status = "panic"
            /\ out.error = "RegisterOutOfRange" => bad_register
            /\ out.error = "StepOutOfRange" => bad_step
            /\ (bad_register /\ ~bad_step /\ ~SomeOverlap) =>
                   out.error = "RegisterOutOfRange"
            /\ (bad_step /\ ~bad_register /\ ~SomeOverlap) =>
                   out.error = "StepOutOfRange"
            /\ (~bad_register /\ ~bad_step /\ ~SomeOverlap) => out.status = "ok"
            /\ (Len(assertions) = 1 /\ BadRegister(assertions[1])) =>
                   out.error = "RegisterOutOfRange"
            /\ (Len(assertions) = 1 /\ BadStep(assertions[1])
                    /\ ~BadRegister(assertions[1])) =>
                   out.error = "StepOutOfRange"

C18_Witness ==
    /\ out.status = "panic"
    /\ out.error = "StepOutOfRange"
    /\ assertions = <<single(0, 0, 7), periodic(0, 0, 16, 3)>>

-----------------------------------------------------------------------------
(* C19: in the list get_transition_constraints returns, every index        *)
(* 0 .. n-1 of a transition constraint is held once by one group, two      *)
(* indices are in one group exactly when their evaluation degrees are      *)
(* equal, and there are as many groups as distinct evaluation degrees.     *)
(* (SpecTransition)                                                        *)
TransitionCount == Len(context.transition_constraint_degrees)

EvaluationDegree(i) ==
    get_evaluation_degree(context.transition_constraint_degrees[i + 1], N)

\* the places <<group, position>> holding the index i
HoldersOf(r, i) ==
    {p \in (DOMAIN r.groups) \X (1 .. TransitionCount) :
        /\ p[2] \in DOMAIN r.groups[p[1]].indexes
        /\ r.groups[p[1]].indexes[p[2]] = i}

C19_GroupedByDegree ==
    Accepted =>
        /\ \A i \in 0 .. (TransitionCount - 1) : Cardinality(HoldersOf(out, i)) = 1
        /\ \A g \in DOMAIN out.groups :
               /\ Len(out.groups[g].indexes) >= 1
               /\ Len(out.groups[g].coefficients) = Len(out.groups[g].indexes)
               /\ \A k \in DOMAIN out.groups[g].indexes :
                      out.groups[g].indexes[k] \in 0 .. (TransitionCount - 1)
        /\ \A i, j \in 0 .. (TransitionCount - 1) :
               \A p \in HoldersOf(out, i), q \in HoldersOf(out, j) :
                   (p[1] = q[1]) <=> (EvaluationDegree(i) = EvaluationDegree(j))
        /\ Len(out.groups) =
               Cardinality({EvaluationDegree(i) : i \in 0 .. (TransitionCount - 1)})

C19_Witness ==
    /\ Accepted
    /\ context.transition_constraint_degrees =
           << << <<8, 2>> >>, << <<4, 1>> >>, << <<8, 1>>, <<8, 1>> >> >>
    /\ Len(out.groups) = 2

-----------------------------------------------------------------------------
(* C20: the list get_transition_constraints returns is sorted by ascending *)
(* evaluation degree, and two calls on one context return the groups in    *)
(* the same order.  The code returns the groups in the order the HashMap   *)
(* hands them out.  (SpecTransition)                                       *)
C20_SortedFixedOrder ==
    Accepted =>
        /\ \A g, h \in DOMAIN out.groups :
               g < h => get_evaluation_degree(out.groups[g].degree, N)
                            <= get_evaluation_degree(out.groups[h].degree, N)
        /\ prev.status = "ok" => out.groups = prev.groups

-----------------------------------------------------------------------------
(* C21: in get_transition_constraints the constraint of index i receives   *)
(* the (i+1)-th pair of the coin, one pair for each constraint, whatever   *)
(* group it falls in and whatever groups were made before it.              *)
(* (SpecTransition)                                                        *)
C21_IndexOrderCoefficients ==
    Accepted =>
        /\ out.draws = TransitionCount
        /\ \A i \in 0 .. (TransitionCount - 1) : \A p \in HoldersOf(out, i) :
               out.groups[p[1]].coefficients[p[2]] = NthPair(i + 1)

C21_Witness ==
    /\ Accepted
    /\ context.transition_constraint_degrees =
           << << <<4, 1>> >>, << <<8, 2>> >>, << <<4, 1>> >> >>
    /\ out.draws = 3
    /\ \E g \in DOMAIN out.groups :
           /\ out.groups[g].indexes = <<0, 2>>
           /\ out.groups[g].coefficients = <<NthPair(1), NthPair(3)>>

-----------------------------------------------------------------------------
(* C22: every group of get_transition_constraints has degree_adjustment =  *)
(* (composition_degree + trace_poly_degree) - evaluation_degree, and a     *)
(* transition degree whose evaluation degree is above that target makes    *)
(* the call fail with InconsistentDegree.  The code has no such check: the *)
(* subtraction panics on overflow or wraps.  (SpecTransition)              *)
TargetDegree == usize_add(composition_degree(context), trace_poly_degree(context))

AboveTarget ==
    \E i \in 0 .. (TransitionCount - 1) :
        less(TargetDegree, usize(EvaluationDegree(i)))

C22_WithinTarget ==
    (Called /\ ~AboveTarget) =>
        /\ Accepted
        /\ \A g \in DOMAIN out.groups :
               usize_add(as_usize(out.groups[g].degree_adjustment),
                         usize(get_evaluation_degree(out.groups[g].degree, N)))
                   = TargetDegree

-----------------------------------------------------------------------------
(* C23: ProofOptions::new fails when num_queries is outside 1..=128, when  *)
(* blowup_factor is not a power of two or is outside 4..=256, or when      *)
(* grinding_factor is above 32, and succeeds for every combination inside  *)
(* these ranges.  (SpecOptions)                                            *)
OptionsInRange ==
    /\ context.num_queries \in 1 .. 128
    /\ context.blowup_factor \in {4, 8, 16, 32, 64, 128, 256}
    /\ context.grinding_factor \in 0 .. 32

C23_OptionRanges ==
    Called => (Accepted <=> OptionsInRange)

C23_Witness ==
    /\ out.status = "panic"
    /\ context = [num_queries |-> 128, blowup_factor |-> 2, grinding_factor |-> 32]

-----------------------------------------------------------------------------
(* C29: for accepted arguments the accessors num_queries(),                *)
(* blowup_factor() and grinding_factor() return the values passed to new,  *)
(* also for num_queries = 128 and blowup_factor = 256.  (SpecOptions)      *)
C29_AccessorsRoundTrip ==
    bc.status = "read" =>
        /\ bc.num_queries = context.num_queries
        /\ bc.blowup_factor = context.blowup_factor
        /\ bc.grinding_factor = context.grinding_factor

C29_Witness ==
    /\ bc.status = "read"
    /\ context = [num_queries |-> 128, blowup_factor |-> 256, grinding_factor |-> 32]
    /\ out.options.blowup_factor = 8

-----------------------------------------------------------------------------
(* C24: get_periodic_column_polys rejects a column with fewer than 2       *)
(* values, with a number of values that is not a power of two, or with     *)
(* more values than the trace has steps; otherwise it returns one          *)
(* polynomial for each column, in the order of the columns, each as long   *)
(* as its column, and builds the inverse twiddles once for each distinct   *)
(* column length.  (SpecPeriodic)                                          *)
BadColumn(c) == Len(c) < 2 \/ ~is_power_of_two(Len(c)) \/ Len(c) > N

C24_PeriodicColumns ==
    Called =>
        LET cs == context.periodic_column_values
        IN  /\ (\E i \in DOMAIN cs : BadColumn(cs[i])) => out.status = "panic"
            /\ (\A i \in DOMAIN cs : ~BadColumn(cs[i])) =>
                   /\ Accepted
                   /\ Len(out.polys) = Len(cs)
                   /\ \A i \in DOMAIN cs :
                          /\ Len(out.polys[i]) = Len(cs[i])
                          /\ \A y \in Elements :
                                 eval(out.polys[i], y) = Interpolant(cs[i], y)
                   /\ out.built = Cardinality({Len(cs[i]) : i \in DOMAIN cs})

C24_Witness ==
    /\ Accepted
    /\ context.periodic_column_values =
           << <<3, 5>>, <<16, 0, 0, 3, 0, 0, 0, 7>>, <<7, 16>> >>
    /\ out.built = 2

C24_WitnessRejected ==
    /\ out.status = "panic"
    /\ out.error = "ExceedsTraceLength"

-----------------------------------------------------------------------------
(* C25: the verifier channel accepts a query seed only if the seed has at  *)
(* least grinding_factor leading zero bits, and otherwise fails with       *)
(* QuerySeedProofOfWorkVerificationFailed; with grinding_factor = 0 every  *)
(* seed is accepted.  The code counts the trailing zero bits of the first  *)
(* 8 bytes read as a little-endian u64.  (SpecQuerySeed)                   *)

\* bit k (from 0, least significant first) of byte i (from 1) of the seed
SeedBit(i, k) == (out.query_seed[i] \div (2 ^ k)) % 2

\* the seed starts with n zero bits, the bits of each byte taken from the
\* most significant
LeadingZeroBits(n) ==
    \A j \in 0 .. (n - 1) : SeedBit(j \div 8 + 1, 7 - (j % 8)) = 0

\* the u64 read from the first 8 bytes ends with n zero bits
TrailingZeroBits(n) ==
    \A j \in 0 .. (n - 1) : j < 64 => SeedBit(j \div 8 + 1, j % 8) = 0

C25_LeadingZeroBits ==
    Called =>
        /\ Accepted <=> LeadingZeroBits(grinding_factor(context))
        /\ ~Accepted => out.error = "QuerySeedProofOfWorkVerificationFailed"

C25_TrailingZeroBits ==
    Called =>
        /\ Accepted <=> TrailingZeroBits(grinding_factor(context))
        /\ ~Accepted =>
               (out.status = "error"
                   /\ out.error = "QuerySeedProofOfWorkVerificationFailed")
        /\ grinding_factor(context) = 0 => Accepted

C25_Witness ==
    /\ Accepted
    /\ grinding_factor(context) = 9
    /\ out.query_seed = <<0, 128, 0, 0, 0, 0, 0, 0>>
    /\ ~LeadingZeroBits(9)

-----------------------------------------------------------------------------
(* C26: if an assertion of the input is invalid or overlaps another,       *)
(* get_boundary_constraints fails before a pair has been drawn from the    *)
(* coin and before a group or an entry of the twiddle map has been made;   *)
(* no partial list of groups is returned.                                  *)
C26_ValidationFirst ==
    (Called /\ (~AllValid \/ SomeOverlap)) =>
        /\ out.status = "panic"
        /\ out.draws = 0
        /\ out.groups = << >>
        /\ DOMAIN out.twiddle_map = {}

C26_Witness ==
    /\ out.status = "panic"
    /\ assertions = <<sequence(1, 1, 4, <<3, 12>>), single(0, 0, 7), single(1, 8, 1)>>
    /\ out.draws = 0

-----------------------------------------------------------------------------
(* C27: the constraint of a sequence assertion with first_step f, stride s *)
(* and values v_0 .. v_(k-1), k = N / s, vanishes on the asserted steps:   *)
(* evaluate_at(g^(f + i*s), v_i) = 0 for every i below k, also when f is   *)
(* not 0.  (SpecConstraint)                                                *)
C27_VanishesOnAssertedSteps ==
    (Built /\ Len(assertions[1].values) > 1) =>
        LET a == assertions[1]
            g == get_trace_domain_generator(context)
        IN  /\ Len(a.values) * a.stride = N
            /\ \A i \in 0 .. (Len(a.values) - 1) :
                   evaluate_at(bc.constraint, exp(g, a.first_step + i * a.stride),
                               a.values[i + 1]) = ZERO

C27_Witness ==
    /\ bc.status = "built"
    /\ N = 16
    /\ assertions[1] = sequence(0, 1, 4, <<16, 2, 0, 7>>)
    /\ bc.constraint.poly_offset[1] = 1
    /\ evaluate_at(bc.constraint,
                   exp(get_trace_domain_generator(context), 1 + 3 * 4), 7) = ZERO

-----------------------------------------------------------------------------
(* C28: whenever prepare_assertions succeeds its output holds as many      *)
(* assertions as its input: two assertions that compare equal in the       *)
(* ordered set (same stride, first_step and register) are rejected as      *)
(* overlapping before the second is inserted.                              *)
C28_NothingDropped ==
    Called =>
        /\ (\E i, j \in DOMAIN assertions :
                i # j /\ cmp(assertions[i], assertions[j]) = "Equal")
               => out.status = "panic"
        /\ Accepted =>
               /\ Len(out.sorted) = Len(assertions)
               /\ \A i \in DOMAIN assertions :
                      Cardinality({j \in DOMAIN out.sorted :
                                      out.sorted[j] = assertions[i]}) = 1

C28_Witness ==
    /\ out.status = "panic"
    /\ out.error = "AssertionOverlap"
    /\ assertions = <<single(0, 0, 7), single(1, 0, 2), single(0, 0, 9)>>

-----------------------------------------------------------------------------
(* C30: for every length of the trace table (a power of two) and every     *)
(* number of threads, the batched build_commitment writes the hash of row  *)
(* i into slot i, every slot once and none twice, and hands the Merkle     *)
(* tree the leaves of the sequential loop.  With more threads (rounded up  *)
(* to a power of two) than rows the batch size is 0 and par_chunks_mut     *)
(* panics.  (SpecCommitment)                                               *)
SlotsAsSequential ==
    /\ \A i \in DOMAIN bc.writes :
           /\ bc.writes[i] <= 1
           /\ bc.writes[i] = 1 =>
                  bc.hashed_states[i] =
                      sequential_hashed_states(trace_data(context.len), context.len)[i]
    /\ bc.status = "done" =>
           /\ \A i \in DOMAIN bc.writes : bc.writes[i] = 1
           /\ out.leaves =
                  sequential_hashed_states(trace_data(context.len), context.len)

C30_ConcurrentEqualsSequential ==
    /\ bc.status # "panic"
    /\ bc.status \in {"hashing", "done"} => SlotsAsSequential

\* the same for the tables with at least as many rows as threads, rounded up
\* to a power of two
C30_WhenBatched ==
    /\ bc.status = "panic" => context.len < next_power_of_two(context.num_threads)
    /\ bc.status \in {"hashing", "done"} => SlotsAsSequential

C30_Reached ==
    /\ bc.status = "done"
    /\ context = [len |-> 8, num_threads |-> 3]
    /\ bc.batch_size = 2

====
